---- MODULE Spec2Model ----
(***************************************************************************)
(* A model of kubesession (src/kubesession.py): get_kube_session, which    *)
(* resolves a kubeconfig document into a requests session, and             *)
(* _KubernetesAdapter.send, which rewrites the URL of each request and     *)
(* sets the connection pool's assert_hostname from the Host header.        *)
(*                                                                         *)
(* Python strings that the code inspects or rewrites (URLs, server,        *)
(* namespace, header values) are sequences of one-character strings, so    *)
(* that str.replace, str.startswith, urlparse and ipaddress.ip_address are *)
(* computed character by character.  Names that are only compared (the     *)
(* names of contexts, clusters and users, header names, file paths) are    *)
(* TLA+ strings.  A Python dict is a function whose DOMAIN is its keys.    *)
(***************************************************************************)
EXTENDS Integers, Sequences, FiniteSets, TLC

VARIABLES
    config,                 \* the kubeconfig document handed to get_kube_session
    current_context,        \* get_kube_session's argument (None or a name)
    current_namespace,      \* get_kube_session's argument
    certificate_name,       \* get_kube_session's argument
    outcome,                \* "pending" | "returned" | "raised"
    raised,                 \* the exception get_kube_session raised, or None
    session,                \* the requests.Session returned, or None
    connection_pool_kw,     \* the adapter's poolmanager.connection_pool_kw
    pc,                     \* per caller: "idle" | "send" | "pool" | "super" | "done"
    request,                \* per caller: the prepared request in flight
    host_header,            \* per caller: send's local variable
    forwarded,              \* per caller: what super().send was handed
    asked,                  \* history, per caller: the pieces of the URL given to session.request
    lastWriter              \* history: the last write of the pool's assert_hostname

vars == <<config, current_context, current_namespace, certificate_name,
          outcome, raised, session, connection_pool_kw,
          pc, request, host_header, forwarded, asked, lastWriter>>

-----------------------------------------------------------------------------
(* Python values *)

PyNone == [type |-> "NoneType"]
PyStr(s) == [type |-> "str", val |-> s]
PyBool(b) == [type |-> "bool", val |-> b]
EmptyDict == [k \in {} |-> PyNone]

\* dict.get(key, default)
DictGet(d, key, default) == IF key \in DOMAIN d THEN d[key] ELSE default

Exception(kind, line) == [type |-> "exception", exc |-> kind, line |-> line]

-----------------------------------------------------------------------------
(* String literals of the source and of its tests *)

KubeScheme == <<"k", "u", "b", "e", ":", "/", "/">>
NamespaceToken == <<"$", "$", "N", "A", "M", "E", "S", "P", "A", "C", "E", "$", "$">>
HttpsPrefix == <<"h", "t", "t", "p", "s", ":", "/", "/">>
BearerPrefix == <<"B", "e", "a", "r", "e", "r", " ">>
DefaultNs == <<"d", "e", "f", "a", "u", "l", "t">>
Kubernetes == <<"k", "u", "b", "e", "r", "n", "e", "t", "e", "s">>

SERVER == <<"h", "t", "t", "p", ":", "/", "/", "h", "o", "s", "t", "/", "g", "e", "t">>
HTTPS_SERVER == <<"h", "t", "t", "p", "s", ":", "/", "/", "h", "o", "s", "t", "/", "g", "e", "t">>
IP_SERVER == <<"h", "t", "t", "p", "s", ":", "/", "/", "2", "3", ".", "2", "2", ".", "1", "4", ".", "1", "8">>
HTTP_IP_SERVER == <<"h", "t", "t", "p", ":", "/", "/", "2", "3", ".", "2", "2", ".", "1", "4", ".", "1", "8">>
IP6_SERVER == <<"h", "t", "t", "p", "s", ":", "/", "/", "[", ":", ":", "1", "]", ":", "6", "4", "4", "3">>
BAD_SERVER == <<"h", "t", "t", "p", "s", ":", "/", "/", "[", ":", ":", "1">>
NsServerPrefix == <<"h", "t", "t", "p", ":", "/", "/", "h", "o", "s", "t", "/">>
NS_SERVER == NsServerPrefix \o NamespaceToken
TestNs == <<"t", "e", "s", "t", "n", "a", "m", "e", "s", "p", "a", "c", "e">>
HttpbinOrg == <<"h", "t", "t", "p", "b", "i", "n", ".", "o", "r", "g">>
Something == <<"s", "o", "m", "e", "t", "h", "i", "n", "g">>
ApiV1 == <<"/", "a", "p", "i", "/", "v", "1">>
Pods == <<"/", "p", "o", "d", "s">>
AcceptAll == <<"*", "/", "*">>
DevNull == "/dev/null"

-----------------------------------------------------------------------------
(* str methods *)

\* s.startswith(prefix)
StartsWith(s, prefix) ==
    Len(s) >= Len(prefix) /\ SubSeq(s, 1, Len(prefix)) = prefix

\* s.replace(old, new) for a non-empty old: the non-overlapping occurrences
\* of old, found from the left, are each replaced by new; new is not rescanned.
RECURSIVE Replace(_, _, _)
Replace(s, old, new) ==
    IF Len(s) < Len(old) THEN s
    ELSE IF StartsWith(s, old)
         THEN new \o Replace(SubSeq(s, Len(old) + 1, Len(s)), old, new)
         ELSE <<Head(s)>> \o Replace(Tail(s), old, new)

\* c in s
Contains(s, c) == \E i \in 1..Len(s) : s[i] = c

\* s.find(c) for one of the characters cs, 1-based; Len(s) + 1 when none is there
FindAny(s, cs) ==
    IF \E i \in 1..Len(s) : s[i] \in cs
    THEN CHOOSE i \in 1..Len(s) : s[i] \in cs /\ \A j \in 1..(i - 1) : s[j] \notin cs
    ELSE Len(s) + 1

\* s.rfind(c), 1-based; 0 when it is not there
RFind(s, c) ==
    IF Contains(s, c)
    THEN CHOOSE i \in 1..Len(s) : s[i] = c /\ \A j \in (i + 1)..Len(s) : s[j] # c
    ELSE 0

\* s.partition(c): <<before, after>>; after is empty when c is not in s
PartitionBefore(s, c) == SubSeq(s, 1, FindAny(s, {c}) - 1)
PartitionAfter(s, c) == SubSeq(s, FindAny(s, {c}) + 1, Len(s))

\* s.split(c)
RECURSIVE Split(_, _)
Split(s, c) ==
    IF Contains(s, c)
    THEN <<PartitionBefore(s, c)>> \o Split(PartitionAfter(s, c), c)
    ELSE <<s>>

UpperLetters == <<"A", "B", "C", "D", "E", "F", "G", "H", "I", "J", "K", "L", "M",
                  "N", "O", "P", "Q", "R", "S", "T", "U", "V", "W", "X", "Y", "Z">>
LowerLetters == <<"a", "b", "c", "d", "e", "f", "g", "h", "i", "j", "k", "l", "m",
                  "n", "o", "p", "q", "r", "s", "t", "u", "v", "w", "x", "y", "z">>
Digits == <<"0", "1", "2", "3", "4", "5", "6", "7", "8", "9">>

Range(f) == {f[i] : i \in DOMAIN f}

LowerChar(c) ==
    IF c \in Range(UpperLetters)
    THEN LowerLetters[CHOOSE i \in 1..Len(UpperLetters) : UpperLetters[i] = c]
    ELSE c

\* s.lower()
Lower(s) == [i \in 1..Len(s) |-> LowerChar(s[i])]

-----------------------------------------------------------------------------
(* urllib.parse.urlparse, as far as get_kube_session uses it: the netloc   *)
(* and the hostname attribute of its result (UrlparseRaises, whether the   *)
(* call raises, follows ip_address below).                                 *)

SchemeChars == Range(UpperLetters) \cup Range(LowerLetters) \cup Range(Digits) \cup {"+", "-", "."}

\* urlsplit: the index of the ':' that ends the scheme, 0 when the URL has none
UrlSchemeEnd(url) ==
    LET i == FindAny(url, {":"})
    IN  IF /\ i > 1
           /\ i <= Len(url)
           /\ url[1] \in Range(UpperLetters) \cup Range(LowerLetters)
           /\ \A j \in 1..(i - 1) : url[j] \in SchemeChars
        THEN i
        ELSE 0

\* urlsplit: the netloc, the text between a leading '//' and the next '/', '?' or '#'
UrlNetloc(url) ==
    LET rest == SubSeq(url, UrlSchemeEnd(url) + 1, Len(url))
    IN  IF StartsWith(rest, <<"/", "/">>)
        THEN LET r == SubSeq(rest, 3, Len(rest))
             IN  SubSeq(r, 1, FindAny(r, {"/", "?", "#"}) - 1)
        ELSE <<>>


\* the hostname attribute: None, or the host in lower case (a zone after '%' kept as is)
UrlHostname(url) ==
    LET netloc == UrlNetloc(url)
        hostinfo == SubSeq(netloc, RFind(netloc, "@") + 1, Len(netloc))
        host == IF Contains(hostinfo, "[")
                THEN PartitionBefore(PartitionAfter(hostinfo, "["), "]")
                ELSE PartitionBefore(hostinfo, ":")
    IN  IF host = <<>> THEN PyNone
        ELSE PyStr(Lower(PartitionBefore(host, "%"))
                   \o SubSeq(host, FindAny(host, {"%"}), Len(host)))

-----------------------------------------------------------------------------
(* ipaddress.ip_address: whether it returns (TRUE) or raises ValueError    *)

HexDigits == Range(Digits) \cup {"a", "b", "c", "d", "e", "f", "A", "B", "C", "D", "E", "F"}

DigitValue(c) == (CHOOSE i \in 1..Len(Digits) : Digits[i] = c) - 1

RECURSIVE DecimalValue(_)
DecimalValue(s) ==
    IF s = <<>> THEN 0
    ELSE 10 * DecimalValue(SubSeq(s, 1, Len(s) - 1)) + DigitValue(s[Len(s)])

\* IPv4Address._parse_octet
IsOctet(s) ==
    /\ s # <<>>
    /\ \A i \in 1..Len(s) : s[i] \in Range(Digits)
    /\ Len(s) <= 3
    /\ (Len(s) > 1 => s[1] # "0")
    /\ DecimalValue(s) <= 255

\* IPv4Address(s) does not raise
IsIPv4(s) ==
    /\ ~Contains(s, "/")
    /\ LET octets == Split(s, ".")
       IN  Len(octets) = 4 /\ \A i \in 1..4 : IsOctet(octets[i])

\* IPv6Address._parse_hextet
IsHextet(s) == Len(s) <= 4 /\ \A i \in 1..Len(s) : s[i] \in HexDigits

\* IPv6Address._ip_int_from_string on the parts between colons, an IPv4 tail
\* already turned into its two hextets
IsIPv6Parts(parts) ==
    LET n == Len(parts)
        skips == {i \in 2..(n - 1) : parts[i] = <<>>}
    IN  /\ n >= 3
        /\ n <= 9
        /\ Cardinality(skips) <= 1
        /\ IF skips # {}
           THEN LET skip == CHOOSE i \in skips : TRUE
                    hi0 == skip - 1
                    lo0 == n - skip
                    hi == IF parts[1] = <<>> THEN hi0 - 1 ELSE hi0
                    lo == IF parts[n] = <<>> THEN lo0 - 1 ELSE lo0
                IN  /\ (parts[1] = <<>> => hi = 0)
                    /\ (parts[n] = <<>> => lo = 0)
                    /\ 8 - (hi + lo) >= 1
                    /\ \A i \in 1..hi : IsHextet(parts[i])
                    /\ \A i \in (n - lo + 1)..n : IsHextet(parts[i])
           ELSE /\ n = 8
                /\ parts[1] # <<>>
                /\ parts[n] # <<>>
                /\ \A i \in 1..n : IsHextet(parts[i])

\* IPv6Address(s) does not raise
IsIPv6(s) ==
    LET addr == PartitionBefore(s, "%")
        zone == PartitionAfter(s, "%")
        parts == Split(addr, ":")
        last == parts[Len(parts)]
    IN  /\ ~Contains(s, "/")
        /\ (Contains(s, "%") => zone # <<>> /\ ~Contains(zone, "%"))
        /\ Len(parts) >= 3
        /\ IF Contains(last, ".")
           THEN /\ IsIPv4(last)
                /\ IsIPv6Parts(SubSeq(parts, 1, Len(parts) - 1) \o <<<<"0">>, <<"0">>>>)
           ELSE IsIPv6Parts(parts)

\* str(address): the text ip_address parses; str(None) is 'None'
PyStrOf(v) == IF v = PyNone THEN <<"N", "o", "n", "e">> ELSE v.val

\* ipaddress.ip_address(address) returns rather than raises ValueError
IsIpAddress(address) == IsIPv4(PyStrOf(address)) \/ IsIPv6(PyStrOf(address))

\* urlparse(url) raises ValueError: urlsplit's "Invalid IPv6 URL" for a netloc
\* with an unmatched bracket and, since Python 3.11.4, _check_bracketed_netloc
\* for a bracketed host that is no IPv6 address (the IPvFuture form 'v...' is
\* not modelled; no server of the model uses it).
UrlparseRaises(url) ==
    LET netloc == UrlNetloc(url)
    IN  \/ Contains(netloc, "[") /\ ~Contains(netloc, "]")
        \/ Contains(netloc, "]") /\ ~Contains(netloc, "[")
        \/ /\ Contains(netloc, "[")
           /\ Contains(netloc, "]")
           /\ ~IsIPv6(PartitionBefore(PartitionAfter(netloc, "["), "]"))

-----------------------------------------------------------------------------
(* requests: the session's headers are a CaseInsensitiveDict, modelled as  *)
(* the sequence of its (name, value) items in insertion order, at most one *)
(* per lower-cased name.                                                   *)

HostName == <<"H", "o", "s", "t">>
AuthorizationName == <<"A", "u", "t", "h", "o", "r", "i", "z", "a", "t", "i", "o", "n">>
AcceptName == <<"A", "c", "c", "e", "p", "t">>

Header(name, value) == [name |-> name, value |-> value]

\* name in headers
HeaderIn(headers, name) ==
    \E i \in 1..Len(headers) : Lower(headers[i].name) = Lower(name)

\* headers[name], for a name that is in headers
HeaderGet(headers, name) ==
    headers[CHOOSE i \in 1..Len(headers) : Lower(headers[i].name) = Lower(name)].value

\* headers[name] = value: an item of the same lower-cased name is replaced
\* where it stands, a new one is appended
HeaderSet(headers, name, value) ==
    IF HeaderIn(headers, name)
    THEN [i \in 1..Len(headers) |->
             IF Lower(headers[i].name) = Lower(name) THEN Header(name, value)
             ELSE headers[i]]
    ELSE Append(headers, Header(name, value))

\* requests.Session(): the default headers (of which only Accept is kept: the
\* code under study reads none of them), verify = True, cert = None
NewSession ==
    [headers |-> <<Header(AcceptName, AcceptAll)>>,
     verify |-> PyBool(TRUE),
     cert |-> PyNone,
     adapter |-> PyNone]

-----------------------------------------------------------------------------
(* get_kube_session *)

Returned(s) == [raised |-> PyNone, session |-> s]
Raised(kind, line) == [raised |-> Exception(kind, line), session |-> PyNone]

\* [c for c in entries if c['name'] == name]
NamedEntries(entries, name) == SelectSeq(entries, LAMBDA c : c["name"] = name)

\* _KubernetesAdapter.__init__
KubernetesAdapter(server, namespace) == [server |-> server, namespace |-> namespace]

\* a slip: the caller's namespace taken first
AdapterNamespaceCallerFirst(context, ns) == ns

\* context.get('namespace', current_namespace)
AdapterNamespace(context, ns) == DictGet(context, "namespace", ns)

\* s.mount('kube://', _KubernetesAdapter(cluster['server'], ...))
Mount(s, cluster, context, ns) ==
    [s EXCEPT !.adapter = KubernetesAdapter(cluster["server"], AdapterNamespace(context, ns))]

\* a slip: user.get('client-key'), which raises nothing
ApplyClientCertLenient(s, user) ==
    IF "client-certificate" \in DOMAIN user
    THEN Returned([s EXCEPT !.cert = [type |-> "tuple",
                                      val |-> <<PyStr(user["client-certificate"]),
                                                IF "client-key" \in DOMAIN user
                                                THEN PyStr(user["client-key"]) ELSE PyNone>>]])
    ELSE Returned(s)

\* if 'client-certificate' in user: s.cert = (..., user['client-key'])
ApplyClientCert(s, user) ==
    IF "client-certificate" \in DOMAIN user
    THEN IF "client-key" \in DOMAIN user
         THEN Returned([s EXCEPT !.cert = [type |-> "tuple",
                                           val |-> <<user["client-certificate"], user["client-key"]>>]])
         ELSE Raised("KeyError", 70)
    ELSE Returned(s)

\* a slip: the token without its 'Bearer ' prefix
ApplyTokenBare(s, user) ==
    IF "token" \in DOMAIN user
    THEN [s EXCEPT !.headers = HeaderSet(s.headers, AuthorizationName, user["token"])]
    ELSE s

\* if 'token' in user: s.headers['Authorization'] = 'Bearer {token}'.format(...)
ApplyToken(s, user) ==
    IF "token" \in DOMAIN user
    THEN [s EXCEPT !.headers = HeaderSet(s.headers, AuthorizationName, BearerPrefix \o user["token"])]
    ELSE s

\* the try block: ipaddress.ip_address(parts.hostname); s.headers['Host'] = ...
ApplyHostHeader(s, server, cert_name) ==
    IF IsIpAddress(UrlHostname(server))
    THEN [s EXCEPT !.headers = HeaderSet(s.headers, HostName, cert_name)]
    ELSE s

\* if 'certificate-authority' in cluster: s.verify = ...
ApplyCertificateAuthority(s, cluster) ==
    IF "certificate-authority" \in DOMAIN cluster
    THEN [s EXCEPT !.verify = PyStr(cluster["certificate-authority"])]
    ELSE s

\* cluster['server'].startswith('https://')
IsHttps(cluster) == StartsWith(cluster["server"], HttpsPrefix)

\* cluster.get('insecure-skip-tls-verify', False)
InsecureSkipTlsVerify(cluster) == DictGet(cluster, "insecure-skip-tls-verify", FALSE) = TRUE

\* a slip: the certificate-authority applied after insecure-skip-tls-verify too
ApplyTlsAuthorityLast(s, cluster, cert_name) ==
    IF IsHttps(cluster)
    THEN IF InsecureSkipTlsVerify(cluster)
         THEN Returned(ApplyCertificateAuthority([s EXCEPT !.verify = PyBool(FALSE)], cluster))
         ELSE IF UrlparseRaises(cluster["server"])
              THEN Raised("ValueError", 84)
              ELSE Returned(ApplyCertificateAuthority(
                                ApplyHostHeader(s, cluster["server"], cert_name), cluster))
    ELSE Returned(s)

\* a slip: the certificate-authority applied whatever the scheme
ApplyTlsAnyScheme(s, cluster, cert_name) ==
    IF IsHttps(cluster)
    THEN IF InsecureSkipTlsVerify(cluster)
         THEN Returned([s EXCEPT !.verify = PyBool(FALSE)])
         ELSE IF UrlparseRaises(cluster["server"])
              THEN Raised("ValueError", 84)
              ELSE Returned(ApplyCertificateAuthority(
                                ApplyHostHeader(s, cluster["server"], cert_name), cluster))
    ELSE Returned(ApplyCertificateAuthority(s, cluster))

\* if cluster['server'].startswith('https://'): ... (the rest of the function)
ApplyTls(s, cluster, cert_name) ==
    IF IsHttps(cluster)
    THEN IF InsecureSkipTlsVerify(cluster)
         THEN Returned([s EXCEPT !.verify = PyBool(FALSE)])
         ELSE IF UrlparseRaises(cluster["server"])
              THEN Raised("ValueError", 84)
              ELSE Returned(ApplyCertificateAuthority(
                                ApplyHostHeader(s, cluster["server"], cert_name), cluster))
    ELSE Returned(s)

\* the context name in effect
ContextName(cfg, ctx) == IF ctx = PyNone THEN cfg["current-context"] ELSE ctx.val

\* the session of a resolved context, cluster and user
BuildSession(context, cluster, user, ns, cert_name) ==
    LET withCert == ApplyClientCert(Mount(NewSession, cluster, context, ns), user)
    IN  IF withCert.raised # PyNone THEN withCert
        ELSE ApplyTls(ApplyToken(withCert.session, user), cluster, cert_name)

\* a slip: every cluster when none has the name
ClusterEntriesOrAll(cfg, context) ==
    IF NamedEntries(cfg["clusters"], context["cluster"]) = <<>>
    THEN cfg["clusters"]
    ELSE NamedEntries(cfg["clusters"], context["cluster"])

\* [c for c in config['clusters'] if c['name'] == context['cluster']]
ClusterEntries(cfg, context) == NamedEntries(cfg["clusters"], context["cluster"])

get_kube_session(cfg, ctx, ns, cert_name) ==
    LET contexts == NamedEntries(cfg["contexts"], ContextName(cfg, ctx))
    IN  IF contexts = <<>> THEN Raised("IndexError", 58)
        ELSE LET context == contexts[1]["context"]
                 clusters == ClusterEntries(cfg, context)
             IN  IF clusters = <<>> THEN Raised("IndexError", 59)
                 ELSE LET cluster == clusters[1]["cluster"]
                          users == IF "user" \in DOMAIN context
                                   THEN NamedEntries(cfg["users"], context["user"])
                                   ELSE <<>>
                      IN  IF "user" \in DOMAIN context /\ users = <<>>
                          THEN Raised("IndexError", 61)
                          ELSE BuildSession(context, cluster,
                                            IF "user" \in DOMAIN context
                                            THEN users[1]["user"] ELSE EmptyDict,
                                            ns, cert_name)

-----------------------------------------------------------------------------
(* _KubernetesAdapter.send *)

\* a slip: the two replacements in the other order
RewriteUrlNamespaceFirst(url, adapter) ==
    Replace(Replace(url, NamespaceToken, adapter.namespace), KubeScheme, adapter.server)

\* request.url.replace('kube://', self.server).replace('$$NAMESPACE$$', self.namespace)
RewriteUrl(url, adapter) ==
    Replace(Replace(url, KubeScheme, adapter.server), NamespaceToken, adapter.namespace)

\* for header in request.headers: if header.lower() == "host": ...; break
ScanHostHeader(headers) ==
    IF \E i \in 1..Len(headers) : Lower(headers[i].name) = Lower(HostName)
    THEN LET first == CHOOSE i \in 1..Len(headers) :
                          /\ Lower(headers[i].name) = Lower(HostName)
                          /\ \A j \in 1..(i - 1) : Lower(headers[j].name) # Lower(HostName)
         IN  PyStr(HeaderGet(headers, headers[first].name))
    ELSE PyNone

\* if host_header: (None and '' are false)
Truthy(v) == v # PyNone /\ v.val # <<>>

\* a slip: no elif, an earlier request's assert_hostname is left
SetAssertHostnameNoClear(kw, host) ==
    IF Truthy(host)
    THEN [k \in DOMAIN kw \cup {"assert_hostname"} |->
             IF k = "assert_hostname" THEN host.val ELSE kw[k]]
    ELSE kw

\* a slip: kw.setdefault("assert_hostname", host_header), the first write stays
SetAssertHostnameFirstWins(kw, host) ==
    IF "assert_hostname" \in DOMAIN kw THEN kw
    ELSE IF Truthy(host)
         THEN [k \in DOMAIN kw \cup {"assert_hostname"} |->
                  IF k = "assert_hostname" THEN host.val ELSE kw[k]]
         ELSE kw

\* if host_header: kw["assert_hostname"] = host_header
\* elif "assert_hostname" in kw: kw.pop("assert_hostname", None)
SetAssertHostname(kw, host) ==
    IF Truthy(host)
    THEN [k \in DOMAIN kw \cup {"assert_hostname"} |->
             IF k = "assert_hostname" THEN host.val ELSE kw[k]]
    ELSE IF "assert_hostname" \in DOMAIN kw
         THEN [k \in DOMAIN kw \ {"assert_hostname"} |-> kw[k]]
         ELSE kw

\* the assert_hostname a connection made now is given: the pool's, or None
AssertHostname(kw) ==
    IF "assert_hostname" \in DOMAIN kw THEN PyStr(kw["assert_hostname"]) ELSE PyNone

-----------------------------------------------------------------------------
(* session.request, as the tests call it, with per-request headers *)

\* requests' merge_setting: the session's headers updated with the request's
RECURSIVE MergeHeaders(_, _)
MergeHeaders(headers, extra) ==
    IF extra = <<>> THEN headers
    ELSE MergeHeaders(HeaderSet(headers, Head(extra).name, Head(extra).value), Tail(extra))

\* Session.get_adapter: the adapter mounted on 'kube://' takes the URLs that
\* start with it, compared in lower case
AdapterTakes(url) == StartsWith(Lower(url), KubeScheme)

PreparedRequest(url, headers) == [url |-> url, headers |-> headers]

-----------------------------------------------------------------------------
(* Inputs: kubeconfig documents as make_test_config builds them, and the   *)
(* arguments of get_kube_session                                           *)

\* the longest URL a caller asks for: 'kube://' and this many pieces
MaxUrlParts == 3

Callers == {"c1", "c2"}

\* make_test_config
TestConfig(contexts, clusters, users, current) ==
    [k \in {"contexts", "clusters", "users", "current-context"} |->
        CASE k = "contexts" -> contexts
          [] k = "clusters" -> clusters
          [] k = "users" -> users
          [] OTHER -> current]

\* the entries of a list: the one named 'minikube' holds the record under
\* study, any other a fixed one
ContextEntries(names, context) ==
    [i \in 1..Len(names) |->
        [name |-> names[i],
         context |-> IF names[i] = "minikube" THEN context
                     ELSE [k \in {"cluster"} |-> "other"]]]
ClusterEntriesOf(names, cluster) ==
    [i \in 1..Len(names) |->
        [name |-> names[i],
         cluster |-> IF names[i] = "minikube" THEN cluster
                     ELSE [k \in {"server"} |-> SERVER]]]
UserEntries(names, user) ==
    [i \in 1..Len(names) |-> [name |-> names[i], user |-> user]]

NameLists == {<<>>, <<"minikube">>, <<"other", "minikube">>}
UserNameLists == {<<>>, <<"minikube">>}

ContextDicts ==
    {[k \in {"cluster"} \cup ks |->
         CASE k = "cluster" -> cl
           [] k = "user" -> "minikube"
           [] OTHER -> TestNs] :
     cl \in {"minikube", "other"}, ks \in SUBSET {"user", "namespace"}}

Servers == {SERVER, HTTPS_SERVER, IP_SERVER, HTTP_IP_SERVER, IP6_SERVER, BAD_SERVER}

ClusterDictsOf(servers) ==
    {[k \in {"server"} \cup ks |->
         CASE k = "server" -> sv
           [] k = "certificate-authority" -> DevNull
           [] OTHER -> skip] :
     sv \in servers, ks \in SUBSET {"certificate-authority", "insecure-skip-tls-verify"},
     skip \in BOOLEAN}

UserDicts ==
    {[k \in ks |->
         CASE k = "client-certificate" -> "/client.crt"
           [] k = "client-key" -> "/client.key"
           [] OTHER -> Something] :
     ks \in SUBSET {"client-certificate", "client-key", "token"}}

ContextArgs == {PyNone, PyStr("other")}
NamespaceArgs == {DefaultNs, <<"n", "s">>}
CertificateNames == {Kubernetes, HttpbinOrg}

Idle ==
    /\ outcome = "pending"
    /\ raised = PyNone
    /\ session = PyNone
    /\ connection_pool_kw = EmptyDict
    /\ pc = [c \in Callers |-> "idle"]
    /\ request = [c \in Callers |-> PyNone]
    /\ host_header = [c \in Callers |-> PyNone]
    /\ forwarded = [c \in Callers |-> PyNone]
    /\ asked = [c \in Callers |-> PyNone]
    /\ lastWriter = PyNone

\* every document and argument of the sets above
InitBuild ==
    /\ \E ctxNames \in NameLists, context \in ContextDicts,
          clNames \in NameLists, cluster \in ClusterDictsOf(Servers),
          userNames \in UserNameLists, user \in UserDicts :
          config = TestConfig(ContextEntries(ctxNames, context),
                              ClusterEntriesOf(clNames, cluster),
                              UserEntries(userNames, user), "minikube")
    /\ current_context \in ContextArgs
    /\ current_namespace \in NamespaceArgs
    /\ certificate_name \in CertificateNames
    /\ Idle

\* documents that resolve, as the tests' are: one context, one cluster, and
\* one user, with a token, that the context may name
SessionConfigs(servers) ==
    {TestConfig(ContextEntries(<<"minikube">>, context),
                ClusterEntriesOf(<<"minikube">>, [k \in {"server"} |-> sv]),
                UserEntries(<<"minikube">>, user),
                "minikube") :
     sv \in servers,
     context \in {c \in ContextDicts : c["cluster"] = "minikube"},
     user \in {u \in UserDicts : "token" \in DOMAIN u
                                 /\ ("client-certificate" \in DOMAIN u <=> "client-key" \in DOMAIN u)}}

InitWith(configs) ==
    /\ config \in configs
    /\ current_context = PyNone
    /\ current_namespace = DefaultNs
    /\ certificate_name = Kubernetes
    /\ Idle

\* the URLs the callers ask for: 'kube://' and then pieces of a path, the
\* placeholders among them
UrlPieces == {"api", "ns", "pods", "kube"}

PieceText(piece) ==
    CASE piece = "api" -> ApiV1
      [] piece = "ns" -> <<"/">> \o NamespaceToken
      [] piece = "pods" -> Pods
      [] piece = "kube" -> KubeScheme

RECURSIVE PathOf(_)
PathOf(parts) == IF parts = <<>> THEN <<>> ELSE PieceText(Head(parts)) \o PathOf(Tail(parts))

UrlOf(parts) == KubeScheme \o PathOf(parts)

UrlParts == UNION {[1..n -> UrlPieces] : n \in 0..MaxUrlParts}

\* the per-request headers: none, a Host header, one spelled in lower case,
\* one in upper case with an empty value
ExtraHeaders ==
    {<<>>,
     <<Header(HostName, HttpbinOrg)>>,
     <<Header(<<"h", "o", "s", "t">>, Kubernetes)>>,
     <<Header(<<"H", "O", "S", "T">>, <<>>)>>}

-----------------------------------------------------------------------------
(* Actions *)

CallerVars == <<connection_pool_kw, pc, request, host_header, forwarded, asked, lastWriter>>
InputVars == <<config, current_context, current_namespace, certificate_name>>
SessionVars == <<outcome, raised, session>>

\* session = get_kube_session(config, ...)
GetKubeSession ==
    /\ outcome = "pending"
    /\ LET r == get_kube_session(config, current_context, current_namespace, certificate_name)
       IN  /\ outcome' = IF r.raised = PyNone THEN "returned" ELSE "raised"
           /\ raised' = r.raised
           /\ session' = r.session
    /\ UNCHANGED <<InputVars, CallerVars>>

\* session.request('GET', url, headers=extra) up to the adapter's send
Request(c, parts, extra) ==
    /\ outcome = "returned"
    /\ pc[c] = "idle"
    /\ AdapterTakes(UrlOf(parts))
    /\ request' = [request EXCEPT ![c] = PreparedRequest(UrlOf(parts),
                                                         MergeHeaders(session.headers, extra))]
    /\ asked' = [asked EXCEPT ![c] = parts]
    /\ pc' = [pc EXCEPT ![c] = "send"]
    /\ UNCHANGED <<InputVars, SessionVars, connection_pool_kw, host_header, forwarded, lastWriter>>

\* send, the URL rewrite and the scan of the headers
SendRewrite(c) ==
    /\ pc[c] = "send"
    /\ request' = [request EXCEPT ![c].url = RewriteUrl(request[c].url, session.adapter)]
    /\ host_header' = [host_header EXCEPT ![c] = ScanHostHeader(request[c].headers)]
    /\ pc' = [pc EXCEPT ![c] = "pool"]
    /\ UNCHANGED <<InputVars, SessionVars, connection_pool_kw, forwarded, asked, lastWriter>>

\* send, the write of poolmanager.connection_pool_kw
SendPool(c) ==
    /\ pc[c] = "pool"
    /\ connection_pool_kw' = SetAssertHostname(connection_pool_kw, host_header[c])
    /\ lastWriter' = [caller |-> c, headers |-> request[c].headers,
                      before |-> AssertHostname(connection_pool_kw)]
    /\ pc' = [pc EXCEPT ![c] = "super"]
    /\ UNCHANGED <<InputVars, SessionVars, request, host_header, forwarded, asked>>

\* send, return super().send(request): the request goes to the transport,
\* whose connection is checked against the pool's assert_hostname of now
SendSuper(c) ==
    /\ pc[c] = "super"
    /\ forwarded' = [forwarded EXCEPT ![c] =
                        [url |-> request[c].url,
                         headers |-> request[c].headers,
                         assert_hostname |-> AssertHostname(connection_pool_kw),
                         written_by |-> lastWriter]]
    /\ pc' = [pc EXCEPT ![c] = "done"]
    /\ UNCHANGED <<InputVars, SessionVars, connection_pool_kw, request, host_header, asked, lastWriter>>

Send(c) == SendRewrite(c) \/ SendPool(c) \/ SendSuper(c)

\* session.request returns and the caller is done with the response
Return(c) ==
    /\ pc[c] = "done"
    /\ pc' = [pc EXCEPT ![c] = "idle"]
    /\ request' = [request EXCEPT ![c] = PyNone]
    /\ host_header' = [host_header EXCEPT ![c] = PyNone]
    /\ forwarded' = [forwarded EXCEPT ![c] = PyNone]
    /\ asked' = [asked EXCEPT ![c] = PyNone]
    /\ UNCHANGED <<InputVars, SessionVars, connection_pool_kw, lastWriter>>

-----------------------------------------------------------------------------
(* Specifications *)

\* get_kube_session alone, on every document of the input sets
NextBuild == GetKubeSession

SpecBuild == InitBuild /\ [][NextBuild]_vars

\* one caller, one request after the other, through the session of a
\* document that resolves
InitSeq == InitWith(SessionConfigs({SERVER, IP_SERVER, NS_SERVER}))

\* the URL and the headers of a request do not meet in send: every URL is
\* asked for without headers of its own, and every header with one URL
SeqRequests == (UrlParts \X {<<>>}) \cup ({<<"api">>} \X ExtraHeaders)

NextSeq ==
    \/ GetKubeSession
    \/ \E r \in SeqRequests : Request("c1", r[1], r[2])
    \/ Send("c1")
    \/ Return("c1")

SpecSeq == InitSeq /\ [][NextSeq]_vars

\* two callers sharing the session, their sends interleaved
Init == InitWith({cfg \in SessionConfigs({SERVER, IP_SERVER}) :
                    /\ DOMAIN cfg["contexts"][1]["context"] = {"cluster"}
                    /\ DOMAIN cfg["users"][1]["user"] = {"token"}})

Next ==
    \/ GetKubeSession
    \/ \E c \in Callers, extra \in ExtraHeaders : Request(c, <<"api">>, extra)
    \/ \E c \in Callers : Send(c)
    \/ \E c \in Callers : Return(c)

Spec == Init /\ [][Next]_vars

-----------------------------------------------------------------------------
(* The claims.  What a claim speaks of is written here from the document   *)
(* and the arguments, apart from get_kube_session's own lookups.           *)

NameInEffect ==
    IF current_context = PyNone THEN config["current-context"] ELSE current_context.val

HasEntry(entries, name) == \E i \in 1..Len(entries) : entries[i]["name"] = name

FirstEntry(entries, name) ==
    entries[CHOOSE i \in 1..Len(entries) :
                /\ entries[i]["name"] = name
                /\ \A j \in 1..(i - 1) : entries[j]["name"] # name]

ContextFound == HasEntry(config["contexts"], NameInEffect)
SelectedContext == FirstEntry(config["contexts"], NameInEffect)["context"]
ClusterFound == ContextFound /\ HasEntry(config["clusters"], SelectedContext["cluster"])
SelectedCluster == FirstEntry(config["clusters"], SelectedContext["cluster"])["cluster"]
NamesUser == ContextFound /\ "user" \in DOMAIN SelectedContext
UserFound == NamesUser /\ HasEntry(config["users"], SelectedContext["user"])
SelectedUser == FirstEntry(config["users"], SelectedContext["user"])["user"]
Resolves == ClusterFound /\ (NamesUser => UserFound)

CertWithoutKey ==
    /\ UserFound
    /\ "client-certificate" \in DOMAIN SelectedUser
    /\ "client-key" \notin DOMAIN SelectedUser

SkipsVerify ==
    /\ "insecure-skip-tls-verify" \in DOMAIN SelectedCluster
    /\ SelectedCluster["insecure-skip-tls-verify"] = TRUE

HttpsScheme == StartsWith(SelectedCluster["server"], HttpsPrefix)

NoRequestYet == \A c \in Callers : pc[c] = "idle" /\ forwarded[c] = PyNone

\* the Host headers of a request, whatever the case of their name
HostValues(headers) ==
    {headers[i].value : i \in {j \in 1..Len(headers) : Lower(headers[j].name) = <<"h", "o", "s", "t">>}}

\* the override a request asks for: its Host header's value unless that is
\* empty, else none
WantedOverride(headers) ==
    IF \E v \in HostValues(headers) : v # <<>>
    THEN PyStr(CHOOSE v \in HostValues(headers) : v # <<>>)
    ELSE PyNone

\* C1, as amended: once send has processed a request and until it is
\* forwarded, the pool's assert_hostname is the value of the request's Host
\* header (its name in any case) when the request has one with a non-empty
\* value, and the pool has no assert_hostname when the request has no Host
\* header or an empty one, whatever an earlier request had installed.
C1_OverrideFollowsHost ==
    \A c \in Callers :
        pc[c] = "super" =>
            AssertHostname(connection_pool_kw) = WantedOverride(request[c].headers)

\* C1 as stated: a request with a Host header leaves the pool's
\* assert_hostname equal to the header's value, one without leaves none.
C1_AsStated ==
    \A c \in Callers :
        pc[c] = "super" =>
            IF HostValues(request[c].headers) # {}
            THEN \E v \in HostValues(request[c].headers) :
                     AssertHostname(connection_pool_kw) = PyStr(v)
            ELSE AssertHostname(connection_pool_kw) = PyNone

\* C1, witness: a request without Host header has cleared the override of an
\* earlier one
C1_Cleared ==
    /\ pc["c1"] = "super"
    /\ HostValues(request["c1"].headers) = {}
    /\ lastWriter.caller = "c1"
    /\ lastWriter.before # PyNone
    /\ AssertHostname(connection_pool_kw) = PyNone

\* C2: the override is the pool's, shared by the callers: a request is
\* forwarded under the override of whichever request wrote the pool last,
\* which may be another caller's (the race is the state C2_Race).
C2_LastWriterWins ==
    \A c \in Callers :
        forwarded[c] # PyNone =>
            /\ forwarded[c].written_by # PyNone
            /\ forwarded[c].assert_hostname = WantedOverride(forwarded[c].written_by.headers)

\* C2, witness: a request forwarded under the other caller's override, not
\* its own
C2_Race ==
    \E c \in Callers :
        /\ forwarded[c] # PyNone
        /\ forwarded[c].written_by.caller # c
        /\ forwarded[c].assert_hostname # WantedOverride(forwarded[c].headers)
        /\ forwarded[c].assert_hostname = WantedOverride(forwarded[c].written_by.headers)

\* the text a piece of the URL is to become
RECURSIVE RewrittenPath(_, _, _)
RewrittenPath(parts, server, ns) ==
    IF parts = <<>> THEN <<>>
    ELSE (CASE Head(parts) = "kube" -> server
            [] Head(parts) = "ns" -> <<"/">> \o ns
            [] OTHER -> PieceText(Head(parts)))
         \o RewrittenPath(Tail(parts), server, ns)

\* the server string once its own '$$NAMESPACE$$' is replaced too
ServerWithNamespace(server, ns) ==
    IF server = NsServerPrefix \o NamespaceToken THEN NsServerPrefix \o ns ELSE server

C4_ResolutionFails ==
    outcome # "pending" =>
        /\ ~ContextFound =>
               /\ outcome = "raised" /\ session = PyNone /\ NoRequestYet
               /\ raised = Exception("IndexError", 58)
        /\ ContextFound /\ ~ClusterFound =>
               /\ outcome = "raised" /\ session = PyNone /\ NoRequestYet
               /\ raised = Exception("IndexError", 59)
        /\ ClusterFound => (raised = PyNone \/ raised.line \notin {58, 59})

\* C4, witness: the context is found and its cluster is not
C4_ClusterMissing ==
    /\ outcome = "raised"
    /\ ContextFound
    /\ ~ClusterFound
    /\ Len(config["clusters"]) > 0

\* C5: with a token T in the resolved user, every request forwarded carries
\* Authorization: Bearer T; with no user named by the context, the session has
\* no Authorization header and no client certificate, and no request forwarded
\* carries an Authorization header.
C5_Authorization ==
    outcome = "returned" =>
        /\ NamesUser /\ "token" \in DOMAIN SelectedUser =>
               \A c \in Callers :
                   forwarded[c] # PyNone =>
                       /\ HeaderIn(forwarded[c].headers, AuthorizationName)
                       /\ HeaderGet(forwarded[c].headers, AuthorizationName)
                              = <<"B", "e", "a", "r", "e", "r", " ">> \o SelectedUser["token"]
        /\ ~NamesUser =>
               /\ ~HeaderIn(session.headers, AuthorizationName)
               /\ session.cert = PyNone
               /\ \A c \in Callers :
                      forwarded[c] # PyNone =>
                          ~HeaderIn(forwarded[c].headers, AuthorizationName)

\* C5, witness: a request forwarded with the token of the resolved user
C5_TokenSent ==
    /\ NamesUser
    /\ "token" \in DOMAIN SelectedUser
    /\ forwarded["c1"] # PyNone
    /\ HeaderIn(forwarded["c1"].headers, AuthorizationName)

\* C6, as amended: with insecure-skip-tls-verify true and an https server,
\* the session's verify is False, whatever the certificate-authority.
C6_SkipVerifyUnderHttps ==
    outcome = "returned" /\ SkipsVerify /\ HttpsScheme => session.verify = PyBool(FALSE)

\* C6 as stated: with insecure-skip-tls-verify true, verify is False.
C6_AsStated ==
    outcome = "returned" /\ SkipsVerify => session.verify = PyBool(FALSE)

\* C6, witness: insecure-skip-tls-verify and a certificate-authority together
C6_SkipBeatsAuthority ==
    /\ outcome = "returned"
    /\ SkipsVerify
    /\ HttpsScheme
    /\ "certificate-authority" \in DOMAIN SelectedCluster
    /\ session.verify = PyBool(FALSE)

\* C7: a cluster's certificate-authority is the session's verify under https
\* when verification is not skipped; under http verify is not it and stays
\* the default, True.
C7_AuthorityOnlyUnderHttps ==
    outcome = "returned" /\ "certificate-authority" \in DOMAIN SelectedCluster =>
        /\ HttpsScheme /\ ~SkipsVerify =>
               session.verify = PyStr(SelectedCluster["certificate-authority"])
        /\ ~HttpsScheme =>
               /\ session.verify # PyStr(SelectedCluster["certificate-authority"])
               /\ session.verify = PyBool(TRUE)

\* C7, witness: a certificate-authority left aside under http
C7_AuthorityIgnored ==
    /\ outcome = "returned"
    /\ "certificate-authority" \in DOMAIN SelectedCluster
    /\ ~HttpsScheme
    /\ session.verify = PyBool(TRUE)

\* the servers whose host is a literal IP address
IpLiteralServers == {IP_SERVER, HTTP_IP_SERVER, IP6_SERVER}

\* C8: the session gets the Host header certificate_name exactly when the
\* server is https, verification is not skipped and the host is a literal
\* IPv4 or IPv6 address; in every other case, a host that does not parse
\* included, it gets none and get_kube_session does not fail.
C8_HostHeaderForIp ==
    outcome # "pending" /\ Resolves /\ ~CertWithoutKey =>
        /\ outcome = "returned"
        /\ IF HttpsScheme /\ ~SkipsVerify /\ SelectedCluster["server"] \in IpLiteralServers
           THEN /\ HeaderIn(session.headers, HostName)
                /\ HeaderGet(session.headers, HostName) = certificate_name
           ELSE ~HeaderIn(session.headers, HostName)

\* C9: the adapter's namespace is the context's namespace when it has one,
\* whatever current_namespace is, and current_namespace only otherwise.
C9_NamespacePrecedence ==
    outcome = "returned" =>
        session.adapter.namespace =
            IF "namespace" \in DOMAIN SelectedContext
            THEN SelectedContext["namespace"]
            ELSE current_namespace

\* C9, witness: a context's namespace taken over the caller's
C9_ContextNamespaceWins ==
    /\ outcome = "returned"
    /\ "namespace" \in DOMAIN SelectedContext
    /\ current_namespace # SelectedContext["namespace"]
    /\ session.adapter.namespace = TestNs

\* C10: a user with a client-certificate and no client-key makes
\* get_kube_session fail: it raises and returns no session.
C10_CertificateNeedsKey ==
    outcome # "pending" /\ Resolves /\ CertWithoutKey =>
        outcome = "raised" /\ session = PyNone /\ NoRequestYet

\* C10, witness: the KeyError of user['client-key']
C10_KeyMissing ==
    /\ outcome = "raised"
    /\ Resolves
    /\ CertWithoutKey
    /\ raised = Exception("KeyError", 70)

====
